---- MODULE Spec2Model ----
(***************************************************************************)
(* pyDHgripper: host-side drivers of the DH3 and RGD grippers over a       *)
(* serial line.  One driver instance (DH3/Gripper.py or RGD/Gripper.py)    *)
(* and the serial transport it owns, with the device as the environment.   *)
(***************************************************************************)
EXTENDS Integers, Sequences, FiniteSets, TLC

VARIABLES
    dev,        \* which driver class the instance is: "DH3" or "RGD"
    device,     \* behaviour of the device on the other end of the line
    pc,         \* position of the caller: new, idle, poll, fb_notready, fb_busy, done
    cur,        \* the call in progress: [op, val, blocking]
    err,        \* exception the call ended with: none, RangeError, OverflowError
    log,        \* transport events of the call in progress, in order
    readings,   \* values decoded by the call's polling reads, in order
    rdata,      \* value returned by the last dispatch: <<>> (None) or <<v>>
    rx,         \* receive buffer of the serial port (bytes not yet read)
    received,   \* bytes the call's last ser.read_all() returned
    pending     \* a frame was written and nothing has been read since

vars == <<dev, device, pc, cur, err, log, readings, rdata, rx, received, pending>>

----------------------------------------------------------------------------
(* Bounds of the model *)

\* polling iterations of a blocking setter that are explored
MaxPolls == 2
\* loop iterations of a readiness state machine that are explored
MaxFeedback == 4
\* bytes of unread responses the receive buffer is explored up to
MaxRx == 5

\* values callers pass to the setters: every bound of both register maps,
\* its neighbours outside, and values inside
Vals == {-32769, -32768, -32767, -256, -1, 0, 1, 9, 10, 19, 20, 50, 90, 91,
         95, 96, 100, 101, 1000, 1001, 32767, 32768}

\* raw 16-bit words the device may report at offsets 3-4 of a response
DevWords == {0, 1, 2, 5, 50, 32768, 65535}

----------------------------------------------------------------------------
(* Byte arithmetic *)

Min(a, b) == IF a <= b THEN a ELSE b

\* a Python list: its items are computed when it is built
List(s) == SubSeq(s, 1, Len(s))

\* Python computes a local variable once: below, "CHOOSE y \in {e : v \in
\* {x}} : TRUE" is e with v standing for the value of x

RECURSIVE BitXor(_, _, _)
BitXor(a, b, n) ==
    IF n = 0 THEN 0
    ELSE (((a % 2) + (b % 2)) % 2) + 2 * BitXor(a \div 2, b \div 2, n - 1)

xor4 == [a \in 0..15 |-> [b \in 0..15 |-> BitXor(a, b, 4)]]

Xor8(a, b) == 16 * xor4[a \div 16][b \div 16] + xor4[a % 16][b % 16]

Xor16(a, b) == 256 * Xor8(a \div 256, b \div 256) + Xor8(a % 256, b % 256)

RECURSIVE Reflect(_, _)
\* the n low bits of x in reverse order
Reflect(x, n) ==
    IF n = 0 THEN 0
    ELSE (x % 2) * (2 ^ (n - 1)) + Reflect(x \div 2, n - 1)

----------------------------------------------------------------------------
(* CRC16 engine: crcmod.mkCrcFun(0x18005, rev=True, initCrc=0xFFFF,        *)
(* xorOut=0x0000)                                                          *)

poly == 98309
initCrc == 65535
xorOut == 0

\* the generator without its x^16 term, bit-reversed (rev=True)
revPoly == Reflect(poly % 65536, 16)

RECURSIVE CrcShift(_, _)
CrcShift(c, n) ==
    IF n = 0 THEN c
    ELSE CrcShift(IF c % 2 = 1 THEN Xor16(c \div 2, revPoly) ELSE c \div 2,
                  n - 1)

crcTable == [b \in 0..255 |-> CrcShift(b, 8)]

RECURSIVE CrcUpdate(_, _)
CrcUpdate(bytes, crc) ==
    IF bytes = <<>> THEN crc
    ELSE CHOOSE y \in
           {CrcUpdate(Tail(bytes), c) :
              c \in {Xor16(crc \div 256,
                          crcTable[Xor8(crc % 256, Head(bytes))])}} : TRUE

crc16(bytes) ==
    CHOOSE y \in {Xor16(CrcUpdate(bs, initCrc), xorOut) : bs \in {bytes}} :
        TRUE

----------------------------------------------------------------------------
(* Python integer/bytes conversions used by the drivers *)

\* int.from_bytes(one byte, signed=True)
SignedByte(b) == IF b >= 128 THEN b - 256 ELSE b

\* x.to_bytes(1, byteorder='big', signed=True), for -128 <= x <= 127
ToByteSigned(x) == (x + 256) % 256

\* v.to_bytes(2, byteorder='big', signed=True) raises OverflowError outside
\* this range
FitsSigned16(v) == -32768 <= v /\ v <= 32767

\* the two bytes in byteorder='little'
ToBytesSigned16_little(v) ==
    LET u == (v + 65536) % 65536 IN <<u % 256, u \div 256>>

\* v.to_bytes(2, byteorder='big', signed=True): <<first byte, second byte>>
ToBytesSigned16(v) ==
    LET u == (v + 65536) % 65536 IN <<u \div 256, u % 256>>

\* int.from_bytes(bs, byteorder='big', signed=True) for at most two bytes
FromBytesSigned(bs) ==
    IF Len(bs) = 0 THEN 0
    ELSE IF Len(bs) = 1 THEN SignedByte(bs[1])
    ELSE LET u == 256 * bs[1] + bs[2] IN IF u >= 32768 THEN u - 65536 ELSE u

\* udata[2:5]
Slice2to5(udata) == SubSeq(udata, 3, Min(5, Len(udata)))

\* udata[3:5]
Slice3to5(udata) == SubSeq(udata, 4, Min(5, Len(udata)))

\* the signed byte left as it is
Normalize_none(x) == x

\* cdata[i] if cdata[i] >= 0 else cdata[i] + 256
Normalize(x) == IF x >= 0 THEN x ELSE x + 256

\* the shifts taken in the opposite order (0, 8, 16, 24)
ShiftByte_little(val, n) == (val \div (256 ^ (3 - n))) % 256

\* (val >> k) & 0xFF on a Python int, k = 8 * n
ShiftByte(val, n) == (val \div (256 ^ n)) % 256

\* the >= 0 test of "val if val >= 0 else val - 1"
IsNonNegative(val) == val >= 0

----------------------------------------------------------------------------
(* Range validator (the same function in both files) *)

\* the check without its upper half
in_range_no_upper(val, val_min, val_max) == val_min <= val

\* TRUE when in_range(val, val_min, val_max) returns, FALSE when it raises
\* RuntimeError('!!! VALUE IS OUT OF RANGE !!!')
in_range(val, val_min, val_max) == val_min <= val /\ val <= val_max

----------------------------------------------------------------------------
(* Transport events recorded in log *)

EvWrite(frame) == [ev |-> "write", arg |-> frame]
EvSleep(ms) == [ev |-> "sleep", arg |-> <<ms>>]
EvRead == [ev |-> "read", arg |-> <<>>]
EvFlush == [ev |-> "flush", arg |-> <<>>]

----------------------------------------------------------------------------
(* The device.  It answers a frame with bytes that arrive in the receive   *)
(* buffer within the settle delay.  An answer is <<kind, word, n>>: the    *)
(* first n bytes of a response whose offsets 3-4 carry a word the device   *)
(* reports ("word") or the 16-bit value bytes of the frame ("echo").       *)

Silent == <<"word", 0, 0>>
Echo == <<"echo", 0, 5>>

Answers(mode) ==
    IF mode \in {"echo", "obedient"} THEN {Echo}
    ELSE IF mode = "silent" THEN {Silent}
    ELSE {Silent, <<"word", 5, 3>>, <<"word", 32768, 4>>}
         \cup {<<"word", w, 5>> : w \in DevWords}

\* answers to a read of the register a loop waits on: an obedient device
\* reports the awaited value
Reports(mode, awaited) ==
    IF mode = "obedient" THEN {<<"word", awaited, 5>>} ELSE Answers(mode)

\* the 16-bit value bytes a frame carries
ValueBytes(d, frame) ==
    IF d = "DH3" THEN <<frame[12], frame[13]>> ELSE <<frame[5], frame[6]>>

Header(d) == IF d = "DH3" THEN <<255, 254, 253>> ELSE <<1, 3, 2>>

Response(d, frame, answer) ==
    LET w == IF answer[1] = "echo" THEN ValueBytes(d, frame)
             ELSE <<answer[2] \div 256, answer[2] % 256>>
    IN  SubSeq(Header(d) \o w, 1, answer[3])

----------------------------------------------------------------------------
(* Frame codecs and dispatch *)

\* Gripper.cal_crc: (crc_l, crc_h) of a list of signed byte values
cal_crc(array) ==
    LET bytes_ == List([i \in 1..Len(array) |-> ToByteSigned(array[i])])
        split(crc) == LET crc_h == crc \div 256
                          crc_l == crc % 256
                      IN  <<crc_l, crc_h>>
    IN  CHOOSE y \in {split(crc) : crc \in {crc16(bytes_)}} : TRUE

\* the decode without the +1 on negative values
Decode_noadjust(udata) == FromBytesSigned(Slice3to5(udata))

\* the response decode shared by both write_uart methods
Decode(udata) ==
    LET data == FromBytesSigned(Slice3to5(udata))
    IN  IF data < 0 THEN data + 1 ELSE data

\* DH3 Gripper.write_uart, the frame it builds
DH3_frame(modbus_high_addr, modbus_low_addr, val, is_set) ==
    LET set_addr == IF is_set THEN 1 ELSE 0
        cdata == <<255, 254, 253, 252, 1, modbus_high_addr, modbus_low_addr,
                   set_addr, 0, ShiftByte(val, 3), ShiftByte(val, 2),
                   ShiftByte(val, 1), ShiftByte(val, 0), 251>>
    IN  List([i \in 1..Len(cdata) |-> Normalize(cdata[i])])

\* RGD Gripper.write_uart, the value it splits
RGD_adjust(val) == IF IsNonNegative(val) THEN val ELSE val - 1

\* RGD Gripper.write_uart, the frame it builds (for a value that fits)
RGD_frame(modbus_high_addr, modbus_low_addr, val, is_set) ==
    LET set_addr == IF is_set THEN 6 ELSE 3
        bytes_ == ToBytesSigned16(RGD_adjust(val))
        val_l == SignedByte(bytes_[1])
        val_h == SignedByte(bytes_[2])
        build(crc) ==
            LET cdata == <<1, set_addr, modbus_high_addr, modbus_low_addr,
                           val_l, val_h, crc[1], crc[2]>>
            IN  List([i \in 1..Len(cdata) |-> Normalize(cdata[i])])
    IN  CHOOSE y \in
          {build(crc) :
             crc \in {cal_crc(<<1, set_addr, modbus_high_addr,
                                modbus_low_addr, val_l, val_h>>)}} : TRUE

\* what a dispatch that raised leaves behind
Raised(e, rxin) ==
    [err |-> e, events |-> <<>>, rx |-> rxin, data |-> <<>>, udata |-> <<>>]

\* write_uart flushing before it reads
Transmit_flush_first(d, frame, is_read, idle_ms, rxin, answer) ==
    LET outcome(arrived) ==
            IF is_read
            THEN [err |-> "none",
                  events |-> <<EvWrite(frame), EvSleep(80), EvFlush, EvRead>>,
                  rx |-> <<>>,
                  data |-> <<Decode(arrived)>>,
                  udata |-> arrived]
            ELSE [err |-> "none",
                  events |-> <<EvWrite(frame), EvSleep(idle_ms)>>,
                  rx |-> arrived,
                  data |-> <<>>,
                  udata |-> <<>>]
    IN  CHOOSE y \in {outcome(arrived) :
                        arrived \in {rxin \o Response(d, frame, answer)}} :
            TRUE

\* the part of write_uart after the frame is built: ser.write, then
\* read_uart + decode + flush, or the short sleep
Transmit(d, frame, is_read, idle_ms, rxin, answer) ==
    LET outcome(arrived) ==
            IF is_read
            THEN [err |-> "none",
                  events |-> <<EvWrite(frame), EvSleep(80), EvRead, EvFlush>>,
                  rx |-> <<>>,
                  data |-> <<Decode(arrived)>>,
                  udata |-> arrived]
            ELSE [err |-> "none",
                  events |-> <<EvWrite(frame), EvSleep(idle_ms)>>,
                  rx |-> arrived,
                  data |-> <<>>,
                  udata |-> <<>>]
    IN  CHOOSE y \in {outcome(arrived) :
                        arrived \in {rxin \o Response(d, frame, answer)}} :
            TRUE

DH3_write_uart(h, l, val, is_set, is_read, rxin, answer) ==
    CHOOSE y \in {Transmit("DH3", cdata, is_read, 10, rxin, answer) :
                    cdata \in {DH3_frame(h, l, val, is_set)}} : TRUE

RGD_write_uart(h, l, val, is_set, is_read, rxin, answer) ==
    IF FitsSigned16(RGD_adjust(val))
    THEN CHOOSE y \in {Transmit("RGD", cdata, is_read, 5, rxin, answer) :
                         cdata \in {RGD_frame(h, l, val, is_set)}} : TRUE
    ELSE Raised("OverflowError", rxin)

write_uart(d, h, l, val, is_set, is_read, rxin, answer) ==
    IF d = "DH3" THEN DH3_write_uart(h, l, val, is_set, is_read, rxin, answer)
    ELSE RGD_write_uart(h, l, val, is_set, is_read, rxin, answer)

----------------------------------------------------------------------------
(* The caller's side of a call *)

\* whether a written frame is left without a read after these events
Pending(before, events) ==
    LET w == {i \in DOMAIN events : events[i].ev = "write"}
    IN  IF w = {} THEN before
        ELSE ~ \E j \in DOMAIN events :
                   events[j].ev = "read" /\ \A i \in w : i < j

\* how far the loops are followed: MaxPolls / MaxFeedback iterations, and one
\* more once the device has settled
PollCap == IF device = "obedient" THEN MaxPolls + 1 ELSE MaxPolls
FeedbackCap == IF device = "obedient" THEN MaxFeedback + 1 ELSE MaxFeedback

Call(op, val, blocking) == [op |-> op, val |-> val, blocking |-> blocking]

NoCall == Call("none", 0, FALSE)

Modes == {"echo", "silent", "arbitrary"}

Init ==
    /\ dev \in {"DH3", "RGD"}
    /\ device \in Modes
    /\ pc = "new"
    /\ cur = NoCall
    /\ err = "none"
    /\ log = <<>>
    /\ readings = <<>>
    /\ rdata = <<>>
    /\ rx = <<>>
    /\ received = <<>>
    /\ pending = FALSE

\* in_range raised: the call ends before write_uart is reached
RaiseRange(c) ==
    /\ cur' = c
    /\ err' = "RangeError"
    /\ pc' = "done"
    /\ log' = <<>>
    /\ readings' = <<>>
    /\ rdata' = <<>>
    /\ received' = <<>>
    /\ UNCHANGED <<dev, device, rx, pending>>

\* a call whose body is one dispatch with outcome r; a blocking setter goes
\* on to its polling loop
Dispatched(c, r) ==
    /\ cur' = c
    /\ err' = r.err
    /\ pc' = IF c.blocking /\ r.err = "none" THEN "poll" ELSE "done"
    /\ log' = r.events
    /\ readings' = <<>>
    /\ rdata' = r.data
    /\ rx' = r.rx
    /\ received' = r.udata
    /\ pending' = Pending(pending, r.events)
    /\ UNCHANGED <<dev, device>>

\* a setter: in_range(val, lo, hi), then write_uart(h, l, val)
Setter(d, op, h, l, lo, hi, is_read, blocking) ==
    /\ pc = "idle"
    /\ dev = d
    /\ \E val \in Vals, answer \in Answers(device) :
          IF in_range(val, lo, hi)
          THEN \E r \in {write_uart(d, h, l, val, TRUE, is_read, rx, answer)} :
                   /\ Len(r.rx) <= MaxRx
                   /\ Dispatched(Call(op, val, blocking), r)
          ELSE RaiseRange(Call(op, val, blocking))

\* a reader leaving is_set at its default (True)
Reader_is_set(d, op, h, l) ==
    /\ pc = "idle"
    /\ dev = d
    /\ \E answer \in Answers(device) :
          \E r \in {write_uart(d, h, l, 1, TRUE, TRUE, rx, answer)} :
              Dispatched(Call(op, 0, FALSE), r)

\* a reader: write_uart(h, l, is_set=False), val left at its default 0x01
Reader(d, op, h, l) ==
    /\ pc = "idle"
    /\ dev = d
    /\ \E answer \in Answers(device) :
          \E r \in {write_uart(d, h, l, 1, FALSE, TRUE, rx, answer)} :
              Dispatched(Call(op, 0, FALSE), r)

\* a command with a fixed or unchecked value: write_uart(h, l, val)
Command(d, op, h, l, val, from) ==
    /\ pc = from
    /\ dev = d
    /\ \E answer \in Answers(device) :
          \E r \in {write_uart(d, h, l, val, TRUE, TRUE, rx, answer)} :
              Dispatched(Call(op, val, FALSE), r)

\* the loop ended only once the register is past the commanded value
Reached_gt(current, val) == current > val

\* the loop ended once the register is at or past the commanded value
Reached_ge(current, val) == current >= val

\* the test that ends a blocking setter's loop
Reached(current, val) == current = val

\* the loop polling with is_set left at its default (a write frame)
PollLoop_is_set(d, op, h, l, pause) ==
    /\ pc = "poll"
    /\ dev = d
    /\ cur.op = op
    /\ Len(readings) < PollCap
    /\ \E answer \in Reports(device, cur.val) :
          \E r \in {write_uart(d, h, l, 1, TRUE, TRUE, rx, answer)} :
          LET hit == Reached(r.data[1], cur.val)
          IN  /\ readings' = Append(readings, r.data[1])
              /\ rdata' = r.data
              /\ rx' = r.rx
              /\ received' = r.udata
              /\ pending' = Pending(pending, r.events)
              /\ pc' = IF hit THEN "done" ELSE "poll"
              /\ log' = log \o r.events \o (IF hit THEN <<>> ELSE pause)
    /\ UNCHANGED <<dev, device, cur, err>>

\* the loop sleeping before it tests the value it read
PollLoop_pause_always(d, op, h, l, pause) ==
    /\ pc = "poll"
    /\ dev = d
    /\ cur.op = op
    /\ Len(readings) < PollCap
    /\ \E answer \in Reports(device, cur.val) :
          \E r \in {write_uart(d, h, l, 1, FALSE, TRUE, rx, answer)} :
          LET hit == Reached(r.data[1], cur.val)
          IN  /\ readings' = Append(readings, r.data[1])
              /\ rdata' = r.data
              /\ rx' = r.rx
              /\ received' = r.udata
              /\ pending' = Pending(pending, r.events)
              /\ pc' = IF hit THEN "done" ELSE "poll"
              /\ log' = log \o r.events \o pause
    /\ UNCHANGED <<dev, device, cur, err>>

\* one iteration of "while True" in a blocking setter: read the register,
\* break when it equals the commanded value, else wait pause (if any)
PollLoop(d, op, h, l, pause) ==
    /\ pc = "poll"
    /\ dev = d
    /\ cur.op = op
    /\ Len(readings) < PollCap
    /\ \E answer \in Reports(device, cur.val) :
          \E r \in {write_uart(d, h, l, 1, FALSE, TRUE, rx, answer)} :
          LET hit == Reached(r.data[1], cur.val)
          IN  /\ readings' = Append(readings, r.data[1])
              /\ rdata' = r.data
              /\ rx' = r.rx
              /\ received' = r.udata
              /\ pending' = Pending(pending, r.events)
              /\ pc' = IF hit THEN "done" ELSE "poll"
              /\ log' = log \o r.events \o (IF hit THEN <<>> ELSE pause)
    /\ UNCHANGED <<dev, device, cur, err>>

\* the call returns (or its exception reaches the caller): the driver is
\* ready for the next call; only the transport keeps state
Return ==
    /\ pc = "done"
    /\ pc' = "idle"
    /\ cur' = NoCall
    /\ err' = "none"
    /\ log' = <<>>
    /\ readings' = <<>>
    /\ rdata' = <<>>
    /\ received' = <<>>
    /\ UNCHANGED <<dev, device, rx, pending>>

----------------------------------------------------------------------------
(* RGD readiness state machines: init_feedback, init_rot_feedback *)

\* the loop tests "while rdata == 0" and "while rdata == 2"
NotReady(state) == state = 0
Busy(state) == state = 2

\* where the caller stands with a state reading, up to the end of the first
\* loop, and from the second loop on
AfterFirstLoop(state) ==
    IF NotReady(state) THEN "fb_notready"
    ELSE IF Busy(state) THEN "fb_busy" ELSE "done"

AfterSecondLoop(state) == IF Busy(state) THEN "fb_busy" ELSE "done"

\* the first read of the state register
FeedbackStart(op, l) ==
    /\ pc = "idle"
    /\ dev = "RGD"
    /\ \E answer \in Reports(device, 1) :
          \E r \in {RGD_write_uart(2, l, 1, FALSE, TRUE, rx, answer)} :
              /\ cur' = Call(op, 0, FALSE)
              /\ err' = "none"
              /\ log' = r.events
              /\ readings' = <<r.data[1]>>
              /\ rdata' = r.data
              /\ rx' = r.rx
              /\ received' = r.udata
              /\ pending' = Pending(pending, r.events)
              /\ pc' = AfterFirstLoop(r.data[1])
    /\ UNCHANGED <<dev, device>>

\* the first loop re-reading the state without init_state()
FeedbackNotReady_noresend(op, l) ==
    /\ pc = "fb_notready"
    /\ dev = "RGD"
    /\ cur.op = op
    /\ Len(readings) <= FeedbackCap
    /\ \E answer \in Reports(device, 1) :
          \E r \in {RGD_write_uart(2, l, 1, FALSE, TRUE, rx, answer)} :
              /\ log' = log \o r.events
              /\ readings' = Append(readings, r.data[1])
              /\ rdata' = r.data
              /\ rx' = r.rx
              /\ received' = r.udata
              /\ pending' = Pending(pending, r.events)
              /\ pc' = AfterFirstLoop(r.data[1])
    /\ UNCHANGED <<dev, device, cur, err>>

\* body of "while rdata == 0": init_state(), then read the state again
FeedbackNotReady(op, l) ==
    /\ pc = "fb_notready"
    /\ dev = "RGD"
    /\ cur.op = op
    /\ Len(readings) <= FeedbackCap
    /\ \E a1 \in Answers(device), a2 \in Reports(device, 1) :
          LET i == RGD_write_uart(1, 0, 165, TRUE, TRUE, rx, a1)
              r == RGD_write_uart(2, l, 1, FALSE, TRUE, i.rx, a2)
          IN  /\ log' = log \o i.events \o r.events
              /\ readings' = Append(readings, r.data[1])
              /\ rdata' = r.data
              /\ rx' = r.rx
              /\ received' = r.udata
              /\ pending' = Pending(pending, r.events)
              /\ pc' = AfterFirstLoop(r.data[1])
    /\ UNCHANGED <<dev, device, cur, err>>

\* body of "while rdata == 2": sleep 100 ms, then read the state again
FeedbackBusy(op, l) ==
    /\ pc = "fb_busy"
    /\ dev = "RGD"
    /\ cur.op = op
    /\ Len(readings) <= FeedbackCap
    /\ \E answer \in Reports(device, 1) :
          \E r \in {RGD_write_uart(2, l, 1, FALSE, TRUE, rx, answer)} :
              /\ log' = log \o <<EvSleep(100)>> \o r.events
              /\ readings' = Append(readings, r.data[1])
              /\ rdata' = r.data
              /\ rx' = r.rx
              /\ received' = r.udata
              /\ pending' = Pending(pending, r.events)
              /\ pc' = AfterSecondLoop(r.data[1])
    /\ UNCHANGED <<dev, device, cur, err>>

----------------------------------------------------------------------------
(* DH3 driver *)

DH3_Gripper == Command("DH3", "__init__", 8, 2, 0, "new")
\* init_feedback passing is_read=False to write_uart
DH3_init_feedback_forget ==
    /\ pc = "idle"
    /\ dev = "DH3"
    /\ \E answer \in Answers(device) :
          \E r \in {write_uart("DH3", 8, 1, -1, TRUE, FALSE, rx, answer)} :
              /\ Len(r.rx) <= MaxRx
              /\ Dispatched(Call("init_feedback", -1, FALSE), r)

DH3_init_feedback == Command("DH3", "init_feedback", 8, 1, -1, "idle")
DH3_init_state == Command("DH3", "init_state", 8, 2, 0, "idle")
DH3_read_open_force == Reader("DH3", "read_open_force", 5, 2)
DH3_set_open_force ==
    Setter("DH3", "set_open_force", 5, 2, 10, 90, TRUE, FALSE)
DH3_read_close_force == Reader("DH3", "read_close_force", 5, 3)
DH3_set_close_force ==
    Setter("DH3", "set_close_force", 5, 3, 10, 90, TRUE, FALSE)
DH3_read_pos == Reader("DH3", "read_pos", 6, 2)
DH3_set_pos ==
    \E blocking \in BOOLEAN :
        Setter("DH3", "set_pos", 6, 2, 0, 95, TRUE, blocking)
DH3_set_pos_loop == PollLoop("DH3", "set_pos", 6, 2, <<>>)
DH3_read_ang == Reader("DH3", "read_ang", 7, 2)
DH3_set_ang ==
    \E blocking \in BOOLEAN :
        Setter("DH3", "set_ang", 7, 2, 0, 100, TRUE, blocking)
DH3_set_ang_loop == PollLoop("DH3", "set_ang", 7, 2, <<>>)
DH3_read_state == Reader("DH3", "read_state", 15, 1)

----------------------------------------------------------------------------
(* RGD driver *)

\* a constructor that only opens the port
RGD_Gripper_bare ==
    /\ pc = "new"
    /\ dev = "RGD"
    /\ Dispatched(Call("__init__", 165, FALSE), Raised("none", rx))

RGD_Gripper == Command("RGD", "__init__", 1, 0, 165, "new")
RGD_init_state == Command("RGD", "init_state", 1, 0, 165, "idle")
RGD_set_force == Setter("RGD", "set_force", 1, 1, 20, 100, TRUE, FALSE)
RGD_set_pos ==
    \E blocking \in BOOLEAN :
        Setter("RGD", "set_pos", 1, 3, 0, 1000, TRUE, blocking)
RGD_set_pos_loop == PollLoop("RGD", "set_pos", 2, 2, <<EvSleep(10)>>)
RGD_set_vel == Setter("RGD", "set_vel", 1, 4, 1, 100, TRUE, FALSE)
RGD_set_abs_rot ==
    Setter("RGD", "set_abs_rot", 1, 5, -32768, 32767, FALSE, FALSE)
RGD_set_rot_vel == Setter("RGD", "set_rot_vel", 1, 7, 1, 100, FALSE, FALSE)
RGD_set_rot_force ==
    Setter("RGD", "set_rot_force", 1, 8, 20, 100, TRUE, FALSE)
RGD_set_rel_rot ==
    Setter("RGD", "set_rel_rot", 1, 9, -32768, 32767, TRUE, FALSE)
RGD_init_feedback == FeedbackStart("init_feedback", 0)
RGD_init_feedback_notready == FeedbackNotReady("init_feedback", 0)
RGD_init_feedback_busy == FeedbackBusy("init_feedback", 0)
RGD_read_state == Reader("RGD", "read_state", 2, 1)
RGD_read_pos == Reader("RGD", "read_pos", 2, 2)
RGD_read_cur == Reader("RGD", "read_cur", 2, 4)
RGD_read_err == Reader("RGD", "read_err", 2, 5)
RGD_read_rot == Reader("RGD", "read_rot", 2, 8)
RGD_init_rot_feedback == FeedbackStart("init_rot_feedback", 10)
RGD_init_rot_feedback_notready == FeedbackNotReady("init_rot_feedback", 10)
RGD_init_rot_feedback_busy == FeedbackBusy("init_rot_feedback", 10)
RGD_read_rot_state == Reader("RGD", "read_rot_state", 2, 11)
RGD_init_dir ==
    \E val \in Vals :
        Command("RGD", "init_dir", 3, 1, val, "idle")

----------------------------------------------------------------------------

Next ==
    \/ DH3_Gripper
    \/ DH3_init_feedback
    \/ DH3_init_state
    \/ DH3_read_open_force
    \/ DH3_set_open_force
    \/ DH3_read_close_force
    \/ DH3_set_close_force
    \/ DH3_read_pos
    \/ DH3_set_pos
    \/ DH3_set_pos_loop
    \/ DH3_read_ang
    \/ DH3_set_ang
    \/ DH3_set_ang_loop
    \/ DH3_read_state
    \/ RGD_Gripper
    \/ RGD_init_state
    \/ RGD_set_force
    \/ RGD_set_pos
    \/ RGD_set_pos_loop
    \/ RGD_set_vel
    \/ RGD_set_abs_rot
    \/ RGD_set_rot_vel
    \/ RGD_set_rot_force
    \/ RGD_set_rel_rot
    \/ RGD_init_feedback
    \/ RGD_init_feedback_notready
    \/ RGD_init_feedback_busy
    \/ RGD_read_state
    \/ RGD_read_pos
    \/ RGD_read_cur
    \/ RGD_read_err
    \/ RGD_read_rot
    \/ RGD_init_rot_feedback
    \/ RGD_init_rot_feedback_notready
    \/ RGD_init_rot_feedback_busy
    \/ RGD_read_rot_state
    \/ RGD_init_dir
    \/ Return

Spec == Init /\ [][Next]_vars

\* the device settles: from now on it reports the value a loop waits on
DeviceSettles ==
    /\ device = "arbitrary"
    /\ device' = "obedient"
    /\ UNCHANGED <<dev, pc, cur, err, log, readings, rdata, rx, received,
                   pending>>

\* the next iteration of a "while" loop the caller is in
LoopStep ==
    \/ DH3_set_pos_loop
    \/ DH3_set_ang_loop
    \/ RGD_set_pos_loop
    \/ RGD_init_feedback_notready
    \/ RGD_init_feedback_busy
    \/ RGD_init_rot_feedback_notready
    \/ RGD_init_rot_feedback_busy

LiveNext == Next \/ DeviceSettles

\* a call that is inside a loop keeps running: the loops have no exit other
\* than their tests, and every iteration is a bounded sleep and a bounded
\* read; the fairness is asked for only once the device has settled
SettledLoopStep == device = "obedient" /\ LoopStep

LiveSpec == Init /\ [][LiveNext]_vars /\ WF_vars(SettledLoopStep)

----------------------------------------------------------------------------
(* Register maps as the specification documents them (sections 4.6, 4.7):  *)
(* <<min, max>> of each range-checked setter, and what the claims use to   *)
(* speak about a call.                                                     *)

DeclaredBound(d, op) ==
    IF d = "DH3"
    THEN CASE op \in {"set_open_force", "set_close_force"} -> <<10, 90>>
           [] op = "set_pos" -> <<0, 95>>
           [] op = "set_ang" -> <<0, 100>>
    ELSE CASE op \in {"set_force", "set_rot_force"} -> <<20, 100>>
           [] op = "set_pos" -> <<0, 1000>>
           [] op \in {"set_vel", "set_rot_vel"} -> <<1, 100>>
           [] op \in {"set_abs_rot", "set_rel_rot"} -> <<-32768, 32767>>

RangeChecked(d, op) ==
    IF d = "DH3"
    THEN op \in {"set_open_force", "set_close_force", "set_pos", "set_ang"}
    ELSE op \in {"set_force", "set_pos", "set_vel", "set_abs_rot",
                 "set_rot_vel", "set_rot_force", "set_rel_rot"}

FireAndForget(d, op) == d = "RGD" /\ op \in {"set_abs_rot", "set_rot_vel"}

\* register a setter writes to
SetterRegister(d, op) ==
    IF d = "DH3"
    THEN CASE op = "set_open_force" -> <<5, 2>>
           [] op = "set_close_force" -> <<5, 3>>
           [] op = "set_pos" -> <<6, 2>>
           [] op = "set_ang" -> <<7, 2>>
    ELSE CASE op = "set_force" -> <<1, 1>>
           [] op = "set_pos" -> <<1, 3>>
           [] op = "set_vel" -> <<1, 4>>
           [] op = "set_abs_rot" -> <<1, 5>>
           [] op = "set_rot_vel" -> <<1, 7>>
           [] op = "set_rot_force" -> <<1, 8>>
           [] op = "set_rel_rot" -> <<1, 9>>

\* register a blocking setter polls
PolledRegister(d, op) ==
    IF d = "DH3" THEN (IF op = "set_pos" THEN <<6, 2>> ELSE <<7, 2>>)
    ELSE <<2, 2>>

Below(d, op, v) == v < DeclaredBound(d, op)[1]
Above(d, op, v) == v > DeclaredBound(d, op)[2]
InBound(d, op, v) == ~Below(d, op, v) /\ ~Above(d, op, v)

\* the frames of the write events of a log, in order
Frames(l) ==
    LET w == SelectSeq(l, LAMBDA e : e.ev = "write")
    IN  [i \in 1..Len(w) |-> w[i].arg]

\* a step in which the caller starts a range-checked setter
StartsSetter == pc = "idle" /\ pc' # "idle" /\ RangeChecked(dev, cur'.op)

\* the state right after the first step of a range-checked setter
AfterSetter ==
    /\ pc \in {"done", "poll"}
    /\ RangeChecked(dev, cur.op)
    /\ readings = <<>>

----------------------------------------------------------------------------
(* C1 *)

\* C1: a range-checked setter of either driver called with a value strictly
\* below min or strictly above max ends in the out-of-range error and leaves
\* the transport as it was: no event of the call (no write, read or flush)
\* and the receive buffer unchanged.
C1_OutOfRangeNoIO ==
    [][(StartsSetter /\ ~InBound(dev, cur'.op, cur'.val))
         => (/\ pc' = "done"
             /\ err' = "RangeError"
             /\ log' = <<>>
             /\ rx' = rx)]_vars

\* a value above max was rejected while unread bytes sat in the buffer
C1_Witness ==
    /\ pc = "done"
    /\ RangeChecked(dev, cur.op)
    /\ Above(dev, cur.op, cur.val)
    /\ err = "RangeError"
    /\ log = <<>>
    /\ rx # <<>>

----------------------------------------------------------------------------
(* C2 *)

\* C2: every value inside [min, max] of a range-checked setter, min and max
\* included, is accepted: no error, and exactly one write frame, carrying
\* that value in a write-mode frame to the setter's register.
C2_InBoundAccepted ==
    (AfterSetter /\ InBound(dev, cur.op, cur.val))
      => /\ err = "none"
         /\ Len(Frames(log)) = 1
         /\ LET f == Frames(log)[1]
                reg == SetterRegister(dev, cur.op)
            IN  IF dev = "DH3"
                THEN f[6] = reg[1] /\ f[7] = reg[2] /\ f[8] = 1
                ELSE f[2] = 6 /\ f[3] = reg[1] /\ f[4] = reg[2]

\* what holds of the code: every in-bound value except -32768 is accepted
\* and its frame sent
C2_AcceptedWhenEncodable ==
    (AfterSetter /\ InBound(dev, cur.op, cur.val) /\ cur.val # -32768)
      => /\ err = "none"
         /\ Len(Frames(log)) = 1

----------------------------------------------------------------------------
(* C3 *)

\* C3: round trip against an echo device: for every value v inside the
\* declared bound of a response-expected setter, on a line with nothing
\* buffered, the dispatch returns v.
C3_RoundTrip ==
    [][(/\ StartsSetter
        /\ device = "echo"
        /\ rx = <<>>
        /\ ~FireAndForget(dev, cur'.op)
        /\ InBound(dev, cur'.op, cur'.val))
         => rdata' = <<cur'.val>>]_vars

\* the round trip where the frame could be encoded: every in-bound value
\* except -32768
C3_RoundTripEncodable ==
    [][(/\ StartsSetter
        /\ device = "echo"
        /\ rx = <<>>
        /\ ~FireAndForget(dev, cur'.op)
        /\ InBound(dev, cur'.op, cur'.val)
        /\ cur'.val # -32768)
         => rdata' = <<cur'.val>>]_vars

----------------------------------------------------------------------------
(* C4 *)

\* the 16-bit two's-complement word the RGD codec puts on the wire for v:
\* v itself, or v - 1 for a negative v (section 4.4)
Wire16(v) == IF v >= 0 THEN v ELSE v - 1 + 65536

\* the RGD frame with the value bytes x (offset 4) and y (offset 5)
RGDWriteFrame(reg, x, y) ==
    LET c == crc16(<<1, 6, reg[1], reg[2], x, y>>)
    IN  <<1, 6, reg[1], reg[2], x, y, c % 256, c \div 256>>

\* the frame an accepted RGD setter has just written
RGDSetterWrote ==
    /\ dev = "RGD"
    /\ AfterSetter
    /\ err = "none"

\* C4 as claimed: an RGD write of v to (regH, regL) transmits
\* [01, 06, regH, regL, low-order byte, high-order byte, crc_low, crc_high];
\* set_force(50) transmits 01 06 01 01 32 00 and its CRC.
C4_LowByteFirst ==
    RGDSetterWrote
      => Frames(log)[1] = RGDWriteFrame(SetterRegister(dev, cur.op),
                                        Wire16(cur.val) % 256,
                                        Wire16(cur.val) \div 256)

\* C4 as amended: an RGD write of v to (regH, regL) transmits
\* [01, 06, regH, regL, high-order byte, low-order byte, crc_low, crc_high]:
\* offset 4 is the high-order byte of the 16-bit value and offset 5 its
\* low-order byte; set_force(50) transmits 01 06 01 01 00 32 and its CRC
\* bytes 58 23.
C4_HighByteFirst ==
    RGDSetterWrote
      => /\ Frames(log)[1] = RGDWriteFrame(SetterRegister(dev, cur.op),
                                           Wire16(cur.val) \div 256,
                                           Wire16(cur.val) % 256)
         /\ (cur.op = "set_force" /\ cur.val = 50)
              => Frames(log)[1] = <<1, 6, 1, 1, 0, 50, 88, 35>>

\* set_force(50) has written its frame
C4_Witness ==
    /\ RGDSetterWrote
    /\ cur.op = "set_force"
    /\ cur.val = 50
    /\ Frames(log) = << <<1, 6, 1, 1, 0, 50, 88, 35>> >>

----------------------------------------------------------------------------
(* C5 *)

\* C5: every frame handed to the transport is 14 bytes (DH3) or 8 bytes
\* whose bytes 6-7 are the CRC16 engine's (low, high) output over its bytes
\* 0-5 (RGD), and every transmitted byte is in 0..255.
C5_FrameShape ==
    \A i \in DOMAIN Frames(log) :
        LET f == Frames(log)[i]
        IN  /\ \A j \in DOMAIN f : f[j] \in 0..255
            /\ dev = "DH3" => Len(f) = 14
            /\ dev = "RGD" =>
                 /\ Len(f) = 8
                 /\ f[7] = crc16(SubSeq(f, 1, 6)) % 256
                 /\ f[8] = crc16(SubSeq(f, 1, 6)) \div 256

\* a polling loop has sent several frames, after a frame whose value byte
\* is negative as a signed byte (0xA5 of init_state's 165)
C5_Witness ==
    /\ dev = "RGD"
    /\ cur.op = "init_feedback"
    /\ Len(Frames(log)) >= 3
    /\ \E i \in DOMAIN Frames(log) : Frames(log)[i][6] = 165

----------------------------------------------------------------------------
(* C6 *)

\* byte n (0 = lowest) of the 32-bit two's-complement form of v
TwosByte(v, n) ==
    IF v >= 0 THEN (v \div (256 ^ n)) % 256
    ELSE 255 - (((-v - 1) \div (256 ^ n)) % 256)

DH3Request(reg, mode, v) ==
    <<255, 254, 253, 252, 1, reg[1], reg[2], mode, 0,
      TwosByte(v, 3), TwosByte(v, 2), TwosByte(v, 1), TwosByte(v, 0), 251>>

\* C6: a DH3 request for (regH, regL) with value v is
\* [FF, FE, FD, FC, 01, regH, regL, mode, 00, b3, b2, b1, b0, FB], mode 01
\* for a write and 00 for a read, b3..b0 the big-endian 32-bit
\* two's-complement bytes of v, read requests carrying 1; set_pos(50) sends
\* FF FE FD FC 01 06 02 01 00 00 00 00 32 FB and init_feedback sends value
\* bytes FF FF FF FF.
C6_DH3Frame ==
    (dev = "DH3" /\ log # <<>>)
      => LET fs == Frames(log)
         IN  /\ (RangeChecked(dev, cur.op) /\ err = "none")
                  => /\ fs[1] = DH3Request(SetterRegister(dev, cur.op), 1,
                                           cur.val)
                     /\ \A i \in 2..Len(fs) :
                          fs[i] = DH3Request(PolledRegister(dev, cur.op), 0, 1)
             /\ (cur.op = "set_pos" /\ cur.val = 50)
                  => fs[1] = <<255, 254, 253, 252, 1, 6, 2, 1, 0,
                               0, 0, 0, 50, 251>>
             /\ cur.op = "init_feedback"
                  => fs = << <<255, 254, 253, 252, 1, 8, 1, 1, 0,
                               255, 255, 255, 255, 251>> >>
             /\ cur.op \in {"init_state", "__init__"}
                  => fs = << DH3Request(<<8, 2>>, 1, 0) >>
             /\ cur.op = "read_open_force"
                  => fs = << DH3Request(<<5, 2>>, 0, 1) >>
             /\ cur.op = "read_close_force"
                  => fs = << DH3Request(<<5, 3>>, 0, 1) >>
             /\ cur.op = "read_pos" => fs = << DH3Request(<<6, 2>>, 0, 1) >>
             /\ cur.op = "read_ang" => fs = << DH3Request(<<7, 2>>, 0, 1) >>
             /\ cur.op = "read_state"
                  => fs = << DH3Request(<<15, 1>>, 0, 1) >>

\* a blocking set_pos(50) has written its frame and polled
C6_Witness ==
    /\ dev = "DH3"
    /\ cur.op = "set_pos"
    /\ cur.val = 50
    /\ Len(Frames(log)) >= 2
    /\ Frames(log)[1] = <<255, 254, 253, 252, 1, 6, 2, 1, 0, 0, 0, 0, 50, 251>>

----------------------------------------------------------------------------
(* C7, C8: RGD readiness state machines *)

Readiness(op) == op \in {"init_feedback", "init_rot_feedback"}

StateRegister(op) == IF op = "init_feedback" THEN <<2, 0>> ELSE <<2, 10>>

\* a readiness call has returned
ReadinessReturned == dev = "RGD" /\ Readiness(cur.op) /\ pc = "done"

\* C7: a readiness state machine returns only when the state it last read
\* is neither NOT_READY (0) nor BUSY (2).
C7_ReturnsOnlyReady ==
    ReadinessReturned => rdata[1] \notin {0, 2}

\* what holds of the code: the last state read is never BUSY, and it is
\* NOT_READY only right after a BUSY reading
C7_ReturnsNotBusy ==
    ReadinessReturned
      => /\ rdata[1] # 2
         /\ rdata[1] = 0
              => (Len(readings) >= 2 /\ readings[Len(readings) - 1] = 2)

\* number of leading elements of s equal to x
RECURSIVE Leading(_, _)
Leading(s, x) ==
    IF s # <<>> /\ Head(s) = x THEN 1 + Leading(Tail(s), x) ELSE 0

\* k and m when the readings are k times 0, then m times 2, then one value
\* that is neither; Nominal says the readings have that shape
Zeros(s) == Leading(s, 0)
Twos(s) == Leading(SubSeq(s, Zeros(s) + 1, Len(s)), 2)
Nominal(s) ==
    /\ Len(s) = Zeros(s) + Twos(s) + 1
    /\ s[Len(s)] \notin {0, 2}

\* the events of the call that matter for the count, as letters: "I" an
\* init_state write frame (165 to 0x0100), "S" a read request of the state
\* register, "D" a 100 ms delay
Letter(e, reg) ==
    IF e.ev = "sleep" /\ e.arg = <<100>> THEN "D"
    ELSE IF e.ev = "write" /\ SubSeq(e.arg, 1, 6) = <<1, 6, 1, 0, 0, 165>>
         THEN "I"
    ELSE IF e.ev = "write"
            /\ SubSeq(e.arg, 1, 4) = <<1, 3, reg[1], reg[2]>> THEN "S"
    ELSE "-"

Letters(l, reg) ==
    SelectSeq([i \in 1..Len(l) |-> Letter(l[i], reg)], LAMBDA x : x # "-")

RECURSIVE Repeat(_, _)
Repeat(s, n) == IF n = 0 THEN <<>> ELSE s \o Repeat(s, n - 1)

\* C8: on readings k times 0, m times 2, then a value other than 0 and 2,
\* the call sends exactly k init_state frames, each after a 0 reading and
\* followed by a state re-read, makes exactly m re-reads each after a
\* 100 ms delay, issues k + m + 1 state reads, and returns right after
\* reading the final value (the last event is the end of that read).
C8_NominalTrace ==
    (ReadinessReturned /\ Nominal(readings))
      => LET k == Zeros(readings)
             m == Twos(readings)
         IN  /\ Letters(log, StateRegister(cur.op))
                  = <<"S">> \o Repeat(<<"I", "S">>, k)
                            \o Repeat(<<"D", "S">>, m)
             /\ Len(Frames(log)) = 2 * k + m + 1
             /\ log[Len(log)] = EvFlush
             /\ rdata = <<readings[Len(readings)]>>

\* the trace [0, 0, 2, 2, 5]
C8_Witness ==
    /\ ReadinessReturned
    /\ cur.op = "init_feedback"
    /\ readings = <<0, 0, 2, 2, 5>>

----------------------------------------------------------------------------
(* C9, C10: blocking setters *)

BlockingSetter(d, op) ==
    IF d = "DH3" THEN op \in {"set_pos", "set_ang"} ELSE op = "set_pos"

\* an accepted setter call that has a blocking parameter
InSetterWithBlocking ==
    /\ pc \in {"poll", "done"}
    /\ BlockingSetter(dev, cur.op)
    /\ err = "none"

ReadRequest(d, reg, f) ==
    IF d = "DH3" THEN f[6] = reg[1] /\ f[7] = reg[2] /\ f[8] = 0
    ELSE f[2] = 3 /\ f[3] = reg[1] /\ f[4] = reg[2]

\* C9: a blocking setter returns only with the last value polled from its
\* register (DH3 0x0602 / 0x0702, RGD 0x0202) equal to the commanded value,
\* and keeps polling while every polled value differs; with blocking=false
\* it returns after the single write dispatch, without polling.
C9_BlockingSetter ==
    InSetterWithBlocking
      => IF cur.blocking
         THEN /\ pc = "done"
                   <=> (readings # <<>>
                        /\ readings[Len(readings)] = cur.val)
              /\ \A i \in 1..(Len(readings) - 1) : readings[i] # cur.val
              /\ Len(Frames(log)) = 1 + Len(readings)
              /\ \A i \in 2..Len(Frames(log)) :
                    ReadRequest(dev, PolledRegister(dev, cur.op),
                                Frames(log)[i])
         ELSE /\ pc = "done"
              /\ readings = <<>>
              /\ Len(Frames(log)) = 1

\* a blocking set_pos(50) returned at its second poll
C9_Witness ==
    /\ InSetterWithBlocking
    /\ cur.blocking
    /\ cur.val = 50
    /\ pc = "done"
    /\ Len(readings) = 2
    /\ readings[2] = 50

\* C10: blocking setters and readiness state machines never return and
\* never raise, for every in-bound commanded value, when the device is
\* non-responsive (every read returns no bytes) or faulty (the awaited
\* value is never reported).
C10_NeverReturns ==
    /\ (InSetterWithBlocking /\ cur.blocking /\ device = "silent")
         => pc # "done"
    /\ (InSetterWithBlocking /\ cur.blocking
          /\ \A i \in DOMAIN readings : readings[i] # cur.val)
         => pc # "done"
    /\ (dev = "RGD" /\ Readiness(cur.op) /\ device = "silent")
         => pc # "done"
    /\ (dev = "RGD" /\ Readiness(cur.op)
          /\ \A i \in DOMAIN readings : readings[i] \in {0, 2})
         => pc # "done"
    /\ (BlockingSetter(dev, cur.op) /\ cur.blocking
          /\ InBound(dev, cur.op, cur.val))
         => err = "none"

\* what holds of the code: a blocking setter does not return while no poll
\* decodes to the commanded value, which a silent device prevents for every
\* value but 0; a readiness machine does not return from a silent device,
\* nor while every reading is 0 or every reading is 2
C10_WaitsOtherwise ==
    /\ (InSetterWithBlocking /\ cur.blocking /\ device = "silent"
          /\ cur.val # 0)
         => pc # "done"
    /\ (InSetterWithBlocking /\ cur.blocking
          /\ \A i \in DOMAIN readings : readings[i] # cur.val)
         => pc # "done"
    /\ (dev = "RGD" /\ Readiness(cur.op) /\ device = "silent")
         => pc # "done"
    /\ (dev = "RGD" /\ Readiness(cur.op)
          /\ \A i \in DOMAIN readings : readings[i] = 0)
         => pc # "done"
    /\ (dev = "RGD" /\ Readiness(cur.op)
          /\ \A i \in DOMAIN readings : readings[i] = 2)
         => pc # "done"

----------------------------------------------------------------------------
(* C11: prompt return *)

\* the transport events of one response-expected dispatch of frame f
ResponseCycle(f) == <<EvWrite(f), EvSleep(80), EvRead, EvFlush>>

WriteRequest(d, reg, f) ==
    IF d = "DH3" THEN f[6] = reg[1] /\ f[7] = reg[2] /\ f[8] = 1
    ELSE f[2] = 6 /\ f[3] = reg[1] /\ f[4] = reg[2]

\* the first value polled after the write is the commanded one
FirstPollHits ==
    /\ InSetterWithBlocking
    /\ cur.blocking
    /\ readings # <<>>
    /\ readings[1] = cur.val

\* C11: when the device reports the commanded value on the first poll after
\* the write, a blocking set_pos / set_ang has returned after exactly one
\* write dispatch followed by exactly one read dispatch of the polled
\* register: no further iteration, and no 10 ms inter-poll delay (RGD).
C11_PromptReturn ==
    FirstPollHits
      => /\ pc = "done"
         /\ readings = <<cur.val>>
         /\ Len(Frames(log)) = 2
         /\ WriteRequest(dev, SetterRegister(dev, cur.op), Frames(log)[1])
         /\ ReadRequest(dev, PolledRegister(dev, cur.op), Frames(log)[2])
         /\ log = ResponseCycle(Frames(log)[1])
                    \o ResponseCycle(Frames(log)[2])

C11_Witness ==
    /\ FirstPollHits
    /\ dev = "RGD"
    /\ cur.val = 50
    /\ pc = "done"

----------------------------------------------------------------------------
(* C12: DH3 init_feedback *)

InDH3Feedback == dev = "DH3" /\ cur.op = "init_feedback"

\* C12: DH3 init_feedback is fire-and-forget: it writes -1 to register
\* 0x0801, then only waits the fixed 10 ms; no transport read, no flush, no
\* polling, no value.
C12_FireAndForget ==
    InDH3Feedback
      => /\ pc = "done"
         /\ log = <<EvWrite(DH3Request(<<8, 1>>, 1, -1)), EvSleep(10)>>
         /\ rdata = <<>>
         /\ readings = <<>>

\* C12 as the code has it: DH3 init_feedback writes -1 to register 0x0801 in
\* one response-expected dispatch (write, 80 ms settle, read, flush) and
\* returns without polling; it does not take the 10 ms branch.
C12_ReadsResponse ==
    InDH3Feedback
      => /\ pc = "done"
         /\ err = "none"
         /\ log = ResponseCycle(DH3Request(<<8, 1>>, 1, -1))
         /\ rdata # <<>>
         /\ readings = <<>>
         /\ rx = <<>>

C12_Witness ==
    /\ InDH3Feedback
    /\ pc = "done"
    /\ Len(received) = 5

----------------------------------------------------------------------------
(* C13: dispatch ordering *)

\* a call that got past its range check and its frame encoding
InCall == pc \notin {"new", "idle"} /\ err = "none"

\* the log without the pauses the polling loops take between dispatches
\* (10 ms after an RGD poll, 100 ms before a BUSY re-read)
Dispatches(l) ==
    SelectSeq(l, LAMBDA e : e \notin {EvSleep(10), EvSleep(100)})

\* C13: a response-expected dispatch performs, in this order and once each,
\* the write of the frame, the 80 ms settle delay, the read of all available
\* bytes and the flush, and returns the value decoded from the bytes read; a
\* fire-and-forget dispatch (RGD set_abs_rot, set_rot_vel) performs one
\* write and the 5 ms delay, no read and no flush, and returns no value.
C13_DispatchOrder ==
    InCall
      => IF FireAndForget(dev, cur.op)
         THEN /\ Len(log) = 2
              /\ log[1].ev = "write"
              /\ log[2] = EvSleep(5)
              /\ rdata = <<>>
              /\ received = <<>>
         ELSE LET c == Dispatches(log)
              IN  /\ Len(c) >= 4
                  /\ Len(c) % 4 = 0
                  /\ \A k \in 0..((Len(c) \div 4) - 1) :
                        /\ c[4 * k + 1].ev = "write"
                        /\ c[4 * k + 2] = EvSleep(80)
                        /\ c[4 * k + 3] = EvRead
                        /\ c[4 * k + 4] = EvFlush
                  /\ rdata = <<Decode(received)>>

C13_Witness ==
    /\ InCall
    /\ dev = "RGD"
    /\ cur.op = "read_pos"
    /\ log = ResponseCycle(<<1, 3, 2, 2, 0, 1, 36, 114>>)
    /\ rdata = <<50>>

----------------------------------------------------------------------------
(* C14: single outstanding request *)

\* a step in which the driver writes at least one frame
WritesFrame == pc' # "idle" /\ Len(Frames(log')) > Len(Frames(log))

\* C14: at most one request is in flight: the driver never writes a frame
\* while the frame it wrote before still waits for its response to be read,
\* also when that frame was a fire-and-forget write.
C14_SingleOutstanding == [][WritesFrame => ~pending]_vars

----------------------------------------------------------------------------
(* C15: construction *)

\* the init_state frame of each driver: RGD 165 to 0x0100 (value bytes
\* 00 A5), DH3 0 to 0x0802
InitStateFrame(d) ==
    IF d = "DH3" THEN DH3Request(<<8, 2>>, 1, 0)
    ELSE RGDWriteFrame(<<1, 0>>, 0, 165)

\* C15: nothing has been sent on a connection before the constructor runs,
\* the only step a new driver takes is the constructor, and the constructor
\* transmits the init_state frame, and only it.
C15_Construction ==
    [][pc = "new"
         => /\ log = <<>>
            /\ rx = <<>>
            /\ ~pending
            /\ cur'.op = "__init__"
            /\ Frames(log') = <<InitStateFrame(dev)>>
            /\ log'[1] = EvWrite(InitStateFrame(dev))]_vars

C15_Witness ==
    /\ dev = "RGD"
    /\ cur.op = "__init__"
    /\ pc = "done"
    /\ Frames(log) = << <<1, 6, 1, 0, 0, 165, 72, 77>> >>

----------------------------------------------------------------------------
(* C16: response decode *)

\* the big-endian signed 16-bit integer of two bytes
Signed16(hi, lo) ==
    IF hi >= 128 THEN 256 * hi + lo - 65536 ELSE 256 * hi + lo

\* the call's last dispatch read the transport and returned a value
ReturnedValue == InCall /\ rdata # <<>>

\* C16: the value a response-expected dispatch returns is the big-endian
\* signed 16-bit integer of bytes 3 and 4 of the received buffer, plus 1 when
\* that integer is negative; it lies in -32767..32767, and the raw words
\* 0x0000 and 0xFFFF both give 0.
C16_Decode ==
    ReturnedValue
      => /\ rdata[1] \in -32767..32767
         /\ Len(received) >= 5
              => LET raw == Signed16(received[4], received[5])
                 IN  /\ rdata[1] = IF raw < 0 THEN raw + 1 ELSE raw
                     /\ raw \in {0, -1} => rdata[1] = 0

C16_Witness ==
    /\ ReturnedValue
    /\ Len(received) = 5
    /\ received[4] = 255
    /\ received[5] = 255
    /\ rdata = <<0>>

----------------------------------------------------------------------------
(* C17: no automatic retry *)

\* a frame in write mode (DH3 mode 01, RGD function 06)
IsWrite(d, f) == IF d = "DH3" THEN f[8] = 1 ELSE f[2] = 6

\* how many of the frames before the i-th are read requests
ReadsBefore(fs, i) ==
    Cardinality({k \in 1..(i - 1) : ~IsWrite(dev, fs[k])})

\* C17: within one set_pos / set_ang call the setpoint write frame is sent
\* exactly once, as the first frame, and every later frame is a read request
\* to the polled register; a call sends a second write-mode frame only in
\* RGD init_feedback / init_rot_feedback, where each one is the init_state
\* frame sent right after a NOT_READY (0) reading.
C17_NoRetry ==
    InCall
      => LET fs == Frames(log)
             ws == {i \in DOMAIN fs : IsWrite(dev, fs[i])}
         IN  /\ BlockingSetter(dev, cur.op)
                  => /\ ws = {1}
                     /\ WriteRequest(dev, SetterRegister(dev, cur.op), fs[1])
                     /\ \A i \in 2..Len(fs) :
                           ReadRequest(dev, PolledRegister(dev, cur.op),
                                       fs[i])
             /\ ~(dev = "RGD" /\ Readiness(cur.op)) => Cardinality(ws) <= 1
             /\ (dev = "RGD" /\ Readiness(cur.op))
                  => \A i \in ws :
                        /\ fs[i] = InitStateFrame("RGD")
                        /\ ReadsBefore(fs, i) >= 1
                        /\ ReadsBefore(fs, i) = i - Cardinality(ws \cap 1..i)
                        /\ readings[ReadsBefore(fs, i)] = 0

C17_Witness ==
    /\ InCall
    /\ dev = "DH3"
    /\ cur.op = "set_ang"
    /\ cur.blocking
    /\ pc = "done"
    /\ Len(readings) = 2
    /\ Len(Frames(log)) = 3

----------------------------------------------------------------------------
(* C18: liveness of the polling loops *)

\* the caller is inside a polling loop of a blocking setter or of a
\* readiness state machine
InLoop == pc \in {"poll", "fb_notready", "fb_busy"}

\* C18: once the device reports the awaited value from then on (the
\* commanded value to a blocking set_pos / set_ang, a state other than 0 and
\* 2 to init_feedback / init_rot_feedback), a call that is in its polling
\* loop eventually returns.
C18_LoopsReturn == (device = "obedient" /\ InLoop) ~> (pc = "done")

C18_Witness ==
    /\ device = "obedient"
    /\ pc = "done"
    /\ cur.blocking
    /\ Len(readings) >= 2
    /\ readings[1] # cur.val

----------------------------------------------------------------------------
(* C19: the value returned belongs to the frame written *)

\* the frame the call wrote last
LastFrame == Frames(log)[Len(Frames(log))]

\* C19: with a device that answers every frame, the bytes a
\* response-expected dispatch decodes are the response to the frame this
\* dispatch wrote, and no byte of an earlier response is in the receive
\* buffer when a frame is written, whatever operations came before
\* (fire-and-forget writes included).
C19_OwnResponse ==
    /\ [](ReturnedValue /\ device = "echo"
            => received = Response(dev, LastFrame, Echo))
    /\ [][WritesFrame /\ device = "echo" => rx = <<>>]_vars

----------------------------------------------------------------------------
(* C20: missing or truncated responses *)

\* the call's last dispatch read the transport
ReadTransport ==
    /\ pc \notin {"new", "idle"}
    /\ \E i \in DOMAIN log : log[i] = EvRead

\* C20: when the transport read returns fewer than 4 bytes (none, or a
\* truncated response), a response-expected dispatch raises nothing and
\* returns 0.
C20_ShortReadIsZero ==
    (ReadTransport /\ Len(received) < 4)
      => /\ err = "none"
         /\ rdata = <<0>>

C20_Witness ==
    /\ ReadTransport
    /\ Len(received) = 3
    /\ rdata = <<0>>
    /\ pc = "done"

----------------------------------------------------------------------------
(* C21: read operations send one read request *)

\* the read operations of each driver and the register each one reads
ReadOps(d) ==
    IF d = "DH3"
    THEN {"read_open_force", "read_close_force", "read_pos", "read_ang",
          "read_state"}
    ELSE {"read_state", "read_pos", "read_cur", "read_err", "read_rot",
          "read_rot_state"}

ReadRegister(d, op) ==
    IF d = "DH3"
    THEN CASE op = "read_open_force" -> <<5, 2>>
           [] op = "read_close_force" -> <<5, 3>>
           [] op = "read_pos" -> <<6, 2>>
           [] op = "read_ang" -> <<7, 2>>
           [] op = "read_state" -> <<15, 1>>
    ELSE CASE op = "read_state" -> <<2, 1>>
           [] op = "read_pos" -> <<2, 2>>
           [] op = "read_cur" -> <<2, 4>>
           [] op = "read_err" -> <<2, 5>>
           [] op = "read_rot" -> <<2, 8>>
           [] op = "read_rot_state" -> <<2, 11>>

\* the caller is in a read operation
InReadOp == pc \notin {"new", "idle"} /\ cur.op \in ReadOps(dev)

\* C21: every read_* operation of both drivers transmits exactly one frame,
\* a read request (DH3 mode byte 00, RGD function byte 03) to its register,
\* and returns; a read operation never sends a write-mode frame.
C21_ReadOnly ==
    InReadOp
      => /\ pc = "done"
         /\ err = "none"
         /\ Len(Frames(log)) = 1
         /\ ReadRequest(dev, ReadRegister(dev, cur.op), Frames(log)[1])
         /\ \A i \in DOMAIN Frames(log) : ~IsWrite(dev, Frames(log)[i])
         /\ log = ResponseCycle(Frames(log)[1])

C21_Witness ==
    /\ InReadOp
    /\ dev = "DH3"
    /\ cur.op = "read_state"
    /\ Frames(log) = << DH3Request(<<15, 1>>, 0, 1) >>
    /\ pc = "done"

====
